---------------------------- MODULE Spec2Model ----------------------------
(***************************************************************************)
(* String case converters of the repository: toCamelCaseRobust and         *)
(* toKebabCase.  A JavaScript string is a sequence of one-character        *)
(* strings, a JavaScript value is a record [type, val], and the outcome of *)
(* a call is a record that is either a returned string or a thrown error.  *)
(***************************************************************************)
EXTENDS Integers, Sequences, FiniteSets, TLC

VARIABLES str, options, result, pc

vars == <<str, options, result, pc>>

---------------------------------------------------------------------------
(* Bounds of the checked input space *)

MaxLen == 4

MaxWordsLen == 9

---------------------------------------------------------------------------
(* Character classes of the regular expressions *)

LowerAlphabet ==
    <<"a", "b", "c", "d", "e", "f", "g", "h", "i", "j", "k", "l", "m",
      "n", "o", "p", "q", "r", "s", "t", "u", "v", "w", "x", "y", "z">>

UpperAlphabet ==
    <<"A", "B", "C", "D", "E", "F", "G", "H", "I", "J", "K", "L", "M",
      "N", "O", "P", "Q", "R", "S", "T", "U", "V", "W", "X", "Y", "Z">>

(* [a-z], [A-Z], [0-9] and \s (its ASCII members) *)
LowerLetters == { LowerAlphabet[i] : i \in DOMAIN LowerAlphabet }

UpperLetters == { UpperAlphabet[i] : i \in DOMAIN UpperAlphabet }

Digits == {"0", "1", "2", "3", "4", "5", "6", "7", "8", "9"}

AlphaNumeric == LowerLetters \cup UpperLetters \cup Digits

WhiteSpace == {" ", "\t", "\n", "\r", "\f"}

(* [-_\s.] *)
CamelDelimiters == {"-", "_", "."} \cup WhiteSpace

(* [_\s\.] *)
KebabDelimiters == {"_", "."} \cup WhiteSpace

IndexIn(alphabet, c) == CHOOSE i \in DOMAIN alphabet : alphabet[i] = c

toLowerCaseChar(c) ==
    IF c \in UpperLetters THEN LowerAlphabet[IndexIn(UpperAlphabet, c)] ELSE c

toUpperCaseChar(c) ==
    IF c \in LowerLetters THEN UpperAlphabet[IndexIn(LowerAlphabet, c)] ELSE c

toLowerCase(s) == [i \in 1..Len(s) |-> toLowerCaseChar(s[i])]

toUpperCase(s) == [i \in 1..Len(s) |-> toUpperCaseChar(s[i])]

---------------------------------------------------------------------------
(* Values, options and outcomes *)

StringValue(s) == [type |-> "string", val |-> s]

TypeOf(v) == IF v.type = "null" THEN "object" ELSE v.type

Return(s) == [kind |-> "return", val |-> s, err |-> "none", msg |-> <<>>]

Throw(e, m) == [kind |-> "throw", val |-> <<>>, err |-> e, msg |-> m]

NoResult == [kind |-> "none", val |-> <<>>, err |-> "none", msg |-> <<>>]

DefaultOptions == [allowEmpty |-> "unset", throwErrors |-> "unset"]

Truthy(flag) == flag = "true"

---------------------------------------------------------------------------
(* String.prototype.trim *)

RECURSIVE trimStart(_)
trimStart(s) ==
    IF s = <<>> THEN s
    ELSE IF Head(s) \in WhiteSpace THEN trimStart(Tail(s))
    ELSE s

RECURSIVE trimEnd(_)
trimEnd(s) ==
    IF s = <<>> THEN s
    ELSE IF s[Len(s)] \in WhiteSpace THEN trimEnd(SubSeq(s, 1, Len(s) - 1))
    ELSE s

trimNothing(s) == s

trim(s) == trimEnd(trimStart(s))

(* The end of the maximal run of characters of class that starts at i *)
RECURSIVE RunEnd(_, _, _)
RunEnd(s, i, class) ==
    IF i < Len(s) /\ s[i + 1] \in class THEN RunEnd(s, i + 1, class) ELSE i

(* Array.prototype.join('') *)
RECURSIVE join(_)
join(words) ==
    IF words = <<>> THEN <<>> ELSE Head(words) \o join(Tail(words))

NonEmpty(w) == Len(w) > 0

(* String.prototype.split(/[-_\s.]+/) *)
RECURSIVE splitFrom(_, _, _)
splitFrom(s, i, cur) ==
    IF i > Len(s) THEN <<cur>>
    ELSE IF s[i] \in CamelDelimiters
         THEN <<cur>> \o splitFrom(s, RunEnd(s, i, CamelDelimiters) + 1, <<>>)
         ELSE splitFrom(s, i + 1, Append(cur, s[i]))

split(s) == splitFrom(s, 1, <<>>)

---------------------------------------------------------------------------
(* toCamelCaseRobust *)

(* /^[a-z][a-zA-Z0-9]*$/.test(s) *)
isCamelCase(s) ==
    /\ Len(s) >= 1
    /\ s[1] \in LowerLetters
    /\ \A i \in 2..Len(s) : s[i] \in AlphaNumeric

(* A pattern without the capitals in its tail, /^[A-Z][a-z0-9]*$/ *)
isPascalCaseLowerTail(s) ==
    /\ Len(s) >= 1
    /\ s[1] \in UpperLetters
    /\ \A i \in 2..Len(s) : s[i] \in LowerLetters \cup Digits

(* /^[A-Z][a-zA-Z0-9]*$/.test(s) *)
isPascalCase(s) ==
    /\ Len(s) >= 1
    /\ s[1] \in UpperLetters
    /\ \A i \in 2..Len(s) : s[i] \in AlphaNumeric

(* word.replace(/[^a-zA-Z0-9]/g, '') *)
cleanWord(word) == SelectSeq(word, LAMBDA c : c \in AlphaNumeric)

(* cleanWord === cleanWord.toUpperCase() && /[A-Z]/.test(cleanWord) *)
isAcronym(w) ==
    /\ w = toUpperCase(w)
    /\ \E i \in 1..Len(w) : w[i] \in UpperLetters

(* charAt(0).toUpperCase() + slice(1).toLowerCase() *)
capitalize(w) ==
    [i \in 1..Len(w) |-> IF i = 1 THEN toUpperCaseChar(w[i])
                         ELSE toLowerCaseChar(w[i])]

(* The callback of map: index is the position in the array map runs on *)
mapWord(word, index) ==
    LET cw == cleanWord(word) IN
    IF Len(cw) = 0 THEN <<>>
    ELSE IF index = 0 THEN toLowerCase(cw)
    ELSE IF isAcronym(cw) /\ Len(cw) > 1 THEN capitalize(cw)
    ELSE capitalize(cw)

(* The split / filter / map / filter / join pipeline *)
tokenize(trimmed) ==
    LET words  == SelectSeq(split(trim(trimmed)), NonEmpty)
        mapped == [i \in 1..Len(words) |-> mapWord(words[i], i - 1)]
    IN  join(SelectSeq(mapped, NonEmpty))

(* The body of the try block *)
convert(trimmed) ==
    IF isCamelCase(trimmed) THEN Return(trimmed)
    ELSE IF isPascalCase(trimmed)
         THEN Return(<<toLowerCaseChar(trimmed[1])>> \o Tail(trimmed))
    ELSE Return(tokenize(trimmed))

(* try { ... } catch (error) { ... } *)
tryConvert(v, opts, trimmed) ==
    LET r == convert(trimmed) IN
    IF r.kind = "throw"
    THEN IF opts.throwErrors = "false" THEN Return(v.val) ELSE r
    ELSE r

toCamelCaseRobust(v, opts) ==
    IF v.type \in {"null", "undefined"}
    THEN Throw("TypeError", <<"Input cannot be null or undefined">>)
    ELSE IF TypeOf(v) # "string"
    THEN Throw("TypeError", <<"Input must be a string, received", TypeOf(v)>>)
    ELSE LET trimmed == trim(v.val) IN
         IF Len(trimmed) = 0
         THEN IF Truthy(opts.allowEmpty) THEN Return(<<>>)
              ELSE Throw("Error", <<"Input cannot be empty or whitespace only">>)
         ELSE tryConvert(v, opts, trimmed)

---------------------------------------------------------------------------
(* toKebabCase *)

(* input.replace(/([a-z])([A-Z])/g, '$1-$2'): matches are taken left to    *)
(* right and the scan resumes after each match                             *)
RECURSIVE insertCamelBoundaryFrom(_, _)
insertCamelBoundaryFrom(s, i) ==
    IF i > Len(s) THEN <<>>
    ELSE IF i < Len(s) /\ s[i] \in LowerLetters /\ s[i + 1] \in UpperLetters
         THEN <<s[i], "-", s[i + 1]>> \o insertCamelBoundaryFrom(s, i + 2)
         ELSE <<s[i]>> \o insertCamelBoundaryFrom(s, i + 1)

insertCamelBoundary(s) == insertCamelBoundaryFrom(s, 1)

(* The ends m of the group ([A-Z]+) of a match of /([A-Z]+)([A-Z][a-z])/   *)
(* that starts at i: s[i..m] are capitals, s[m+1] a capital, s[m+2] a      *)
(* lowercase letter                                                        *)
acronymGroupEnds(s, i) ==
    { m \in i..(Len(s) - 2) :
        /\ \A k \in i..m : s[k] \in UpperLetters
        /\ s[m + 1] \in UpperLetters
        /\ s[m + 2] \in LowerLetters }

Max(S) == CHOOSE x \in S : \A y \in S : y <= x

(* result.replace(/([A-Z]+)([A-Z][a-z])/g, '$1-$2'): the group is greedy,  *)
(* so the match at i takes the longest group that lets the rest match      *)
RECURSIVE insertAcronymBoundaryFrom(_, _)
insertAcronymBoundaryFrom(s, i) ==
    IF i > Len(s) THEN <<>>
    ELSE IF acronymGroupEnds(s, i) # {}
         THEN LET m == Max(acronymGroupEnds(s, i)) IN
              SubSeq(s, i, m) \o <<"-", s[m + 1], s[m + 2]>>
                  \o insertAcronymBoundaryFrom(s, m + 3)
         ELSE <<s[i]>> \o insertAcronymBoundaryFrom(s, i + 1)

insertAcronymBoundaryNever(s) == s

insertAcronymBoundary(s) == insertAcronymBoundaryFrom(s, 1)

(* replace(re, '-') for a pattern class+: each maximal run of class        *)
(* becomes one hyphen                                                      *)
RECURSIVE replaceRunsFrom(_, _, _)
replaceRunsFrom(s, i, class) ==
    IF i > Len(s) THEN <<>>
    ELSE IF s[i] \in class
         THEN <<"-">> \o replaceRunsFrom(s, RunEnd(s, i, class) + 1, class)
         ELSE <<s[i]>> \o replaceRunsFrom(s, i + 1, class)

(* result.replace(/[_\s\.]+/g, '-') *)
replaceDelimiters(s) == replaceRunsFrom(s, 1, KebabDelimiters)

(* result.replace(/-+/g, '-') *)
collapseHyphens(s) == replaceRunsFrom(s, 1, {"-"})

(* result.replace(/^-+|-+$/g, '') *)
RECURSIVE stripLeadingHyphens(_)
stripLeadingHyphens(s) ==
    IF s # <<>> /\ Head(s) = "-" THEN stripLeadingHyphens(Tail(s)) ELSE s

RECURSIVE stripTrailingHyphens(_)
stripTrailingHyphens(s) ==
    IF s # <<>> /\ s[Len(s)] = "-"
    THEN stripTrailingHyphens(SubSeq(s, 1, Len(s) - 1))
    ELSE s

trimHyphens(s) == stripTrailingHyphens(stripLeadingHyphens(s))

(* A guard that returns '' for a falsy input ahead of the type check *)
toKebabCaseFalsyFirst(v) ==
    IF v.type \in {"null", "undefined"} \/ Len(v.val) = 0 THEN Return(<<>>)
    ELSE IF TypeOf(v) # "string"
    THEN Throw("TypeError", <<"Expected string, received", TypeOf(v)>>)
    ELSE Return(trimHyphens(toLowerCase(collapseHyphens(replaceDelimiters(
             insertAcronymBoundary(insertCamelBoundary(v.val)))))))

toKebabCase(v) ==
    IF TypeOf(v) # "string"
    THEN Throw("TypeError", <<"Expected string, received", TypeOf(v)>>)
    ELSE IF Len(v.val) = 0 THEN Return(<<>>)
    ELSE Return(trimHyphens(toLowerCase(collapseHyphens(replaceDelimiters(
             insertAcronymBoundary(insertCamelBoundary(v.val)))))))

---------------------------------------------------------------------------
(* The callers: one call of a converter on one input *)

Chars == {"a", "A", "1", " ", "-", "_", ".", "!"}

Letters == {"a", "A"}

RECURSIVE StringsUpTo(_, _)
StringsUpTo(alphabet, n) ==
    IF n = 0 THEN {<<>>}
    ELSE LET shorter == StringsUpTo(alphabet, n - 1) IN
         shorter \cup { Append(s, c) : s \in shorter, c \in alphabet }

NonStrings ==
    { [type |-> t, val |-> <<>>] :
        t \in {"null", "undefined", "number", "boolean", "object"} }

Inputs == { StringValue(s) : s \in StringsUpTo(Chars, MaxLen) } \cup NonStrings

LetterInputs ==
    { StringValue(s) :
        s \in StringsUpTo(Letters, MaxWordsLen) }

Flags == {"unset", "true", "false"}

OptionSets == [allowEmpty : Flags, throwErrors : Flags]

Init ==
    /\ str \in Inputs
    /\ options \in OptionSets
    /\ result = NoResult
    /\ pc = "ready"

InitLetters ==
    /\ str \in LetterInputs
    /\ options = DefaultOptions
    /\ result = NoResult
    /\ pc = "ready"

CallToCamelCaseRobust ==
    /\ pc = "ready"
    /\ result' = toCamelCaseRobust(str, options)
    /\ pc' = "toCamelCaseRobust"
    /\ UNCHANGED <<str, options>>

CallToKebabCase ==
    /\ pc = "ready"
    /\ result' = toKebabCase(str)
    /\ pc' = "toKebabCase"
    /\ UNCHANGED <<str, options>>

Next == CallToCamelCaseRobust \/ CallToKebabCase

Spec == Init /\ [][Next]_vars

NextKebab == CallToKebabCase

SpecKebab == InitLetters /\ [][NextKebab]_vars

---------------------------------------------------------------------------
(* Properties of the converters *)

CamelCalled == pc = "toCamelCaseRobust"

KebabCalled == pc = "toKebabCase"

IsString == str.type = "string"

(* The four delimiter characters the documentation names *)
NamedDelimiters == {" ", "-", "_", "."}

AllWhiteSpace(s) == \A i \in 1..Len(s) : s[i] \in WhiteSpace

(* C1: delimiter equivalence. Replacing a delimiter character of the input *)
(* of toCamelCaseRobust, at any position, by another character of          *)
(* {space, '-', '_', '.'} gives the same outcome (value or error).         *)
C1_DelimiterEquivalence ==
    (CamelCalled /\ IsString) =>
        \A i \in 1..Len(str.val) : \A d \in NamedDelimiters :
            str.val[i] \in NamedDelimiters =>
                toCamelCaseRobust(StringValue([str.val EXCEPT ![i] = d]),
                                  options) = result

(* C2: graceful fallback. With throwErrors false, toCamelCaseRobust never  *)
(* raises: it returns a value, the empty string for a non-string input.    *)
C2_GracefulFallback ==
    (CamelCalled /\ options.throwErrors = "false") =>
        /\ result.kind = "return"
        /\ ~IsString => result.val = <<>>

(* C3: type rejection. Under default options toCamelCaseRobust, and        *)
(* toKebabCase, raise a TypeError on every input that is not a string and  *)
(* return no value for it.                                                 *)
C3_TypeRejection ==
    (/\ ~IsString
     /\ \/ CamelCalled /\ options = DefaultOptions
        \/ KebabCalled) =>
        /\ result.kind = "throw"
        /\ result.err = "TypeError"
        /\ result.val = <<>>

C3_Witness ==
    /\ CamelCalled
    /\ str.type = "number"
    /\ options = DefaultOptions
    /\ result.kind = "throw"
    /\ result.err = "TypeError"

(* C4: empty handling. For a string input that is empty or whitespace      *)
(* only, toCamelCaseRobust returns '' when allowEmpty is true, and raises  *)
(* the 'cannot be empty' error when allowEmpty and throwErrors are unset;  *)
(* a non-string input gets the TypeError whatever allowEmpty says.         *)
C4_EmptyHandling ==
    CamelCalled =>
        /\ (IsString /\ AllWhiteSpace(str.val) /\ options.allowEmpty = "true")
               => result = Return(<<>>)
        /\ (IsString /\ AllWhiteSpace(str.val) /\ options = DefaultOptions)
               => /\ result.kind = "throw"
                  /\ result.err = "Error"
                  /\ result.msg = <<"Input cannot be empty or whitespace only">>
        /\ ~IsString => (result.kind = "throw" /\ result.err = "TypeError")

C4_Witness ==
    /\ CamelCalled
    /\ str = StringValue(<<" ", " ">>)
    /\ options.allowEmpty = "true"
    /\ result = Return(<<>>)

(* C5: idempotence. When toCamelCaseRobust returns a non-empty result r,   *)
(* converting r again returns r unchanged.                                 *)
C5_Idempotence ==
    (CamelCalled /\ result.kind = "return" /\ result.val # <<>>) =>
        toCamelCaseRobust(StringValue(result.val), options) = result

(* A kebab-case string: empty, or non-empty words of lowercase letters and *)
(* digits joined by single hyphens                                         *)
IsKebabForm(s) ==
    \/ s = <<>>
    \/ /\ \A i \in 1..Len(s) : s[i] \in LowerLetters \cup Digits \cup {"-"}
       /\ s[1] # "-"
       /\ s[Len(s)] # "-"
       /\ \A i \in 1..(Len(s) - 1) : ~(s[i] = "-" /\ s[i + 1] = "-")

(* C6: output form of toKebabCase. For every string input the result is    *)
(* the empty string or lowercase alphanumeric words joined by single       *)
(* hyphens, with no other character and no leading or trailing hyphen.     *)
C6_KebabOutputForm ==
    (KebabCalled /\ IsString) =>
        (result.kind = "return" /\ IsKebabForm(result.val))

(* A capitalized word: one capital followed by one or more lowercase       *)
(* letters                                                                 *)
IsCapitalizedWord(w) ==
    /\ Len(w) >= 2
    /\ w[1] \in UpperLetters
    /\ \A i \in 2..Len(w) : w[i] \in LowerLetters

(* An acronym word: two or more capitals *)
IsAcronymWord(w) ==
    /\ Len(w) >= 2
    /\ \A i \in 1..Len(w) : w[i] \in UpperLetters

(* Every way of writing s as a concatenation of capitalized and acronym    *)
(* words                                                                   *)
RECURSIVE WordLists(_)
WordLists(s) ==
    IF s = <<>> THEN {<<>>}
    ELSE UNION { { <<SubSeq(s, 1, k)>> \o rest :
                     rest \in WordLists(SubSeq(s, k + 1, Len(s))) } :
                 k \in { n \in 2..Len(s) :
                           \/ IsCapitalizedWord(SubSeq(s, 1, n))
                           \/ IsAcronymWord(SubSeq(s, 1, n)) } }

NoAdjacentAcronyms(ws) ==
    \A i \in 1..(Len(ws) - 1) : ~(IsAcronymWord(ws[i]) /\ IsAcronymWord(ws[i + 1]))

RECURSIVE HyphenJoined(_)
HyphenJoined(ws) ==
    IF ws = <<>> THEN <<>>
    ELSE IF Len(ws) = 1 THEN toLowerCase(ws[1])
    ELSE toLowerCase(ws[1]) \o <<"-">> \o HyphenJoined(Tail(ws))

(* C7: boundary insertion for runs of capitals. When the input of          *)
(* toKebabCase is a concatenation of capitalized words and acronyms, no    *)
(* two acronyms adjacent, the result is the lower-cased words joined by    *)
(* single hyphens in the same order.                                       *)
C7_BoundaryInsertion ==
    (KebabCalled /\ IsString) =>
        \A ws \in WordLists(str.val) :
            (ws # <<>> /\ NoAdjacentAcronyms(ws)) =>
                result = Return(HyphenJoined(ws))

C7_Witness ==
    /\ KebabCalled
    /\ str = StringValue(<<"A", "A", "A", "A", "a", "A", "a", "a">>)
    /\ result = Return(<<"a", "a", "a", "-", "a", "a", "-", "a", "a", "a">>)

(* The maximal runs of non-delimiter characters of s, in order *)
RECURSIVE DelimitedWords(_, _)
DelimitedWords(s, cur) ==
    IF s = <<>> THEN (IF cur = <<>> THEN <<>> ELSE <<cur>>)
    ELSE IF Head(s) \in NamedDelimiters
         THEN (IF cur = <<>> THEN <<>> ELSE <<cur>>) \o DelimitedWords(Tail(s), <<>>)
         ELSE DelimitedWords(Tail(s), Append(cur, Head(s)))

(* An all-uppercase alphanumeric word of length > 1 with a letter in it *)
IsUpperWord(w) ==
    /\ Len(w) > 1
    /\ \A i \in 1..Len(w) : w[i] \in UpperLetters \cup Digits
    /\ \E i \in 1..Len(w) : w[i] \in UpperLetters

(* One or more all-uppercase words separated by delimiters *)
IsUpperWordsInput(s) ==
    /\ s # <<>>
    /\ s[1] \notin NamedDelimiters
    /\ s[Len(s)] \notin NamedDelimiters
    /\ \A i \in 1..Len(s) : s[i] \in UpperLetters \cup Digits \cup NamedDelimiters
    /\ LET ws == DelimitedWords(s, <<>>) IN
       \A i \in 1..Len(ws) : IsUpperWord(ws[i])

RECURSIVE CapitalizedJoined(_)
CapitalizedJoined(ws) ==
    IF ws = <<>> THEN <<>>
    ELSE <<toUpperCaseChar(ws[1][1])>> \o toLowerCase(Tail(ws[1]))
             \o CapitalizedJoined(Tail(ws))

(* C8: acronym flattening. When the input of toCamelCaseRobust is one or   *)
(* more all-uppercase words separated by delimiters, the result is the     *)
(* first word lower-cased followed by each later word with only its first  *)
(* character upper-cased.                                                  *)
C8_AcronymFlattening ==
    (CamelCalled /\ IsString /\ IsUpperWordsInput(str.val)) =>
        LET ws == DelimitedWords(str.val, <<>>) IN
        result = Return(toLowerCase(ws[1]) \o CapitalizedJoined(Tail(ws)))

(* C9: first token lower-cased. A non-empty result of toCamelCaseRobust    *)
(* never begins with an uppercase letter.                                  *)
C9_FirstTokenLowerCased ==
    (CamelCalled /\ IsString /\ result.kind = "return" /\ result.val # <<>>) =>
        result.val[1] \notin UpperLetters

C11_NonEmptyWithoutAllowEmpty ==
    (CamelCalled /\ IsString /\ options.allowEmpty # "true") =>
        /\ result.kind \in {"return", "throw"}
        /\ result.kind = "return" => result.val # <<>>

===========================================================================
